---- MODULE Spec2Model ----
(***************************************************************************)
(* Model of kubemix: the manifest redactor (resourceProcessor.ts) and the  *)
(* aggregation orchestrator (packager.ts / kubectlWrapper.ts).             *)
(*                                                                         *)
(* Texts are modelled at the level the code observes them: a YAML text is  *)
(* a sequence of tokens (document-start markers "---" and document bodies),*)
(* a JSON text is one value (an object or a bare array); a text also       *)
(* carries the style it is written in ("raw" as received, "lib" as the     *)
(* yaml library / JSON.stringify writes it).                               *)
(***************************************************************************)
EXTENDS Integers, Sequences, FiniteSets, TLC

\* ------------------------------------------------------------------ bounds
MaxItems == 2      \* longest items array of a list document
MaxDocs == 2       \* most documents of a multi-document YAML stream
MaxNamespaces == 2 \* namespaces the cluster has

\* --------------------------------------------------------------- constants
SECRET_REDACTION_PLACEHOLDER == "*****"

Vals == {"x1", "y2"}
KeySets == {{}, {"a"}, {"a", "b"}}

\* ------------------------------------------------------------- documents
\* A parsed document: kind, the set of fields it has, and the fields.
EmptyMap == [k \in {} |-> "x1"]

\* One entry of status.containerStatuses: restartCount and
\* state.waiting.reason ("" when the container is not waiting).
ContainerStatus(restartCount, waiting) ==
  [isNull |-> FALSE, restartCount |-> restartCount, waiting |-> waiting]

\* A entry that is null: reading a property of it throws.
NullStatus == [isNull |-> TRUE, restartCount |-> 0, waiting |-> ""]

\* status of a document that has none
NoStatus == [phase |-> "", containerStatuses |-> <<>>]

MkDoc(kind, has, data, stringData, items) ==
  [kind |-> kind, has |-> has, data |-> data, stringData |-> stringData, items |-> items,
   name |-> "", status |-> NoStatus]

\* A Pod: metadata.name, status.phase and status.containerStatuses.
PodWith(name, phase, containerStatuses) ==
  [MkDoc("Pod", {}, EmptyMap, EmptyMap, <<>>) EXCEPT
     !.name = name,
     !.status = [phase |-> phase, containerStatuses |-> containerStatuses]]

\* A Pod with one container.
PodDoc(name, phase, restartCount, waiting) ==
  PodWith(name, phase, <<ContainerStatus(restartCount, waiting)>>)

NoDoc == MkDoc("", {}, EmptyMap, EmptyMap, <<>>)

DataMaps == UNION {[S -> Vals] : S \in KeySets}
StringDataMaps == {[k \in {"a"} |-> "x1"], [k \in {"a", "b"} |-> "y2"]}

\* Non-list documents: Secrets and ConfigMaps, with or without data / stringData.
LeafDocs ==
  {MkDoc(k, {}, EmptyMap, EmptyMap, <<>>) : k \in {"Secret", "ConfigMap"}}
  \cup {MkDoc(k, {"data"}, d, EmptyMap, <<>>) : k \in {"Secret", "ConfigMap"}, d \in DataMaps}
  \cup {MkDoc("Secret", {"stringData"}, EmptyMap, s, <<>>) : s \in StringDataMaps}
  \cup {MkDoc("Secret", {"data", "stringData"}, d, s, <<>>) :
          d \in {[k \in {"a"} |-> "y2"]}, s \in StringDataMaps}

ItemLeafs ==
  { MkDoc("Secret", {"data"}, [k \in {"a", "b"} |-> IF k = "a" THEN "x1" ELSE "y2"], EmptyMap, <<>>),
    MkDoc("Secret", {"stringData"}, EmptyMap, [k \in {"a"} |-> "x1"], <<>>),
    MkDoc("ConfigMap", {"data"}, [k \in {"a"} |-> "x1"], EmptyMap, <<>>) }

SeqUpTo(S, n) == UNION {[1..m -> S] : m \in 0..n}

ListOf(items) == MkDoc("List", {"items"}, EmptyMap, EmptyMap, items)

\* Lists whose items are all leaves.
FlatLists == {ListOf(its) : its \in SeqUpTo(ItemLeafs, MaxItems)}

\* Lists that hold a list: the inner lists have one leaf item.
InnerLists == {ListOf(<<d>>) : d \in ItemLeafs}
NestedLists ==
  {ListOf(its) : its \in {s \in SeqUpTo(ItemLeafs \cup InnerLists, MaxItems) :
                             \E i \in DOMAIN s : s[i] \in InnerLists}}

TopDocs == LeafDocs \cup FlatLists \cup NestedLists

\* Documents of multi-document streams and of bare arrays.
StreamDocs ==
  ItemLeafs \cup {MkDoc("ConfigMap", {}, EmptyMap, EmptyMap, <<>>)}
            \cup {ListOf(<<d>>) : d \in ItemLeafs}

\* ------------------------------------------------------------------ texts
Tok(t, doc, elems, looks) == [t |-> t, doc |-> doc, elems |-> elems, looks |-> looks]
Marker == Tok("marker", NoDoc, <<>>, FALSE)
Body(d) == Tok("body", d, <<>>, TRUE)
EmptyDocument == Tok("empty", NoDoc, <<>>, FALSE)
\* A stretch of text that has syntax errors; looks: it passes the cheap
\* format pre-check (contains "kind:" / starts with "{").
Bad(looks) == Tok("bad", NoDoc, <<>>, looks)
JsonObject(d) == Tok("object", d, <<>>, TRUE)
JsonArray(elems) == Tok("array", NoDoc, elems, TRUE)

Text(form, style, toks) == [form |-> form, style |-> style, toks |-> toks]
EmptyText(form) == Text(form, "raw", <<>>)

\* YAML streams of n documents, separated by "---", with or without a
\* leading "---".
RECURSIVE SepJoin(_)
SepJoin(bodies) ==
  IF Len(bodies) = 0 THEN <<>>
  ELSE IF Len(bodies) = 1 THEN <<bodies[1]>>
  ELSE <<bodies[1], Marker>> \o SepJoin(Tail(bodies))

YamlStreams(S, lo, hi) ==
  {Text("yaml", "raw", lead \o SepJoin([i \in DOMAIN ds |-> Body(ds[i])])) :
     ds \in UNION {[1..m -> S] : m \in lo..hi}, lead \in {<<>>, <<Marker>>}}

YamlInputs ==
  YamlStreams(TopDocs, 1, 1) \cup YamlStreams(StreamDocs, 2, MaxDocs)
  \cup {EmptyText("yaml"),
        Text("yaml", "raw", <<Bad(TRUE)>>), Text("yaml", "raw", <<Bad(FALSE)>>)}
  \cup {Text("yaml", "raw", <<Body(d), Marker, Bad(b)>>) : d \in ItemLeafs, b \in BOOLEAN}

JsonInputs ==
  {Text("json", st, <<JsonObject(d)>>) : d \in TopDocs, st \in {"raw", "lib"}}
  \cup {Text("json", "raw", <<JsonArray(ds)>>) : ds \in SeqUpTo(StreamDocs, MaxDocs)}
  \cup {EmptyText("json"),
        Text("json", "raw", <<Bad(TRUE)>>), Text("json", "raw", <<Bad(FALSE)>>)}

\* ---------------------------------------------------------------- state
VARIABLES
  config,     \* the merged configuration of the run
  pc,                    \* aggregateResources: the step the run is at
  failedAt,              \* the step whose exception ended the run, or "none"
  threw,                 \* the steps at which a call threw so far
  namespaceNames,        \* the resolved namespace list
  namespaceData,         \* { output, command } of the cluster-wide namespace fetch
  tasks,                 \* per entry of namespaceNames: the position of its task
  resourcesByNamespace,  \* namespace -> kind -> names
  totalResourceCounts,   \* kind -> count
  fetchedOutputBlocks,   \* { namespace, command, output } in push order
  twinBlocks,            \* the blocks of the run whose Secret data values differ
  candidates,            \* failing pods whose diagnostics are still to be gathered
  podDiagnostics,        \* the diagnostics records
  rendered,              \* the arguments generateOutput was called with
  written,               \* the string writeOutputToDisk was called with
  calls,                 \* the external calls issued: call -> how many times
  writes,                \* <<task, structure, key>>: the shared entries each task set
  attempts,              \* per diagnostics record: what its three calls did
  fileConfig,            \* scope: the configuration read from the file
  cliConfig,             \* scope: the configuration built from the command line
  allNamespaceNames,     \* scope: the namespaces discovered in the cluster
  namespacesToConsider,  \* scope: what getNamespacesToQuery returned
  resourceTypesToFetch,  \* scope: what getResourceTypesToFetch returned
  sharedDefaultConfig,   \* scope: the module-level defaultConfig object as it is now
  mergeCalls,            \* scope: how many times mergeConfigs was called
  spc,                   \* scope: "ready", "merged", "resolved", "typed"
  podManifest,           \* health: the document handed to isPodFailing
  failing,               \* health: what isPodFailing returned
  hpc,                   \* health: "ready", "classified"
  kubectlCall,           \* kubectl: the arguments of the getResourcesOutput call
  execResult,            \* kubectl: what executeKubectlCommand returned or threw
  returnedData,          \* kubectl: { output, command } returned by getResourcesOutput
  kpc,                   \* kubectl: "ready", "executed", "returned"
  input,      \* redactor: the text handed to the redactor
  fn,         \* redactor: "yaml" = processResourceManifest, "json" = processJsonResourceManifest
  result,     \* redactor: what the first application returned
  result2,    \* redactor: what applying the redactor to result returned
  raised,     \* redactor: an exception escaped the redactor
  rpc         \* redactor: "ready", "once", "twice"

rvars == <<input, fn, result, result2, raised, rpc>>
avars == <<pc, failedAt, threw, namespaceNames, namespaceData, tasks, resourcesByNamespace,
           totalResourceCounts, fetchedOutputBlocks, twinBlocks, candidates, podDiagnostics,
           rendered, written, calls, writes, attempts>>
svars == <<fileConfig, cliConfig, allNamespaceNames, namespacesToConsider,
           resourceTypesToFetch, sharedDefaultConfig, mergeCalls, spc>>
hvars == <<podManifest, failing, hpc>>
kvars == <<kubectlCall, execResult, returnedData, kpc>>
vars == <<config, rvars, avars, svars, hvars, kvars, kvars>>

NoFilter == [namespaces |-> <<>>, excludeNamespaces |-> <<>>,
             includeResourceTypes |-> <<>>, excludeResourceTypes |-> <<>>]

MkConfig(redactSecrets, outputFormat, includeFailingPods, filter) ==
  [redactSecrets |-> redactSecrets, outputFormat |-> outputFormat,
   includeFailingPods |-> includeFailingPods, filter |-> filter]

\* A partial configuration (file or command line): has holds the keys that
\* are defined; the other keys are undefined.
NoPartial ==
  [has |-> {}, redactSecrets |-> TRUE, outputFormat |-> "text", includeFailingPods |-> TRUE,
   filter |-> NoFilter]

\* ------------------------------------------------------- yaml library
\* yaml.parseAllDocuments: a "---" that follows a "---" with nothing in
\* between closes an empty document; so does a trailing "---".
RECURSIVE ParseFrom(_, _, _)
ParseFrom(toks, i, open) ==
  IF i > Len(toks) THEN (IF open THEN <<EmptyDocument>> ELSE <<>>)
  ELSE IF toks[i].t = "marker"
       THEN (IF open THEN <<EmptyDocument>> ELSE <<>>) \o ParseFrom(toks, i + 1, TRUE)
       ELSE <<toks[i]>> \o ParseFrom(toks, i + 1, FALSE)

parseAllDocuments(text) == ParseFrom(text.toks, 1, FALSE)

\* doc.toString({ directives: true }): the document-start marker is always
\* written, then the contents (nothing for an empty document).
docToString(d) == IF d.t = "empty" THEN <<Marker>> ELSE <<Marker, d>>

\* documents.map(toString).join('\n---\n')
RECURSIVE JoinDocuments(_)
JoinDocuments(docs) ==
  IF Len(docs) = 0 THEN <<>>
  ELSE IF Len(docs) = 1 THEN docToString(docs[1])
  ELSE docToString(docs[1]) \o <<Marker>> \o JoinDocuments(Tail(docs))

\* yamlString.includes('apiVersion:') || yamlString.includes('kind:')
LooksLikeManifest(text) == \E i \in DOMAIN text.toks : text.toks[i].looks

\* ------------------------------------------------------------ redaction
RedactMap(m) == [k \in DOMAIN m |-> SECRET_REDACTION_PLACEHOLDER]

redactSecretData(doc) ==
  IF "data" \notin doc.has THEN doc
  ELSE [doc EXCEPT !.data = RedactMap(@),
                   !.stringData = IF "stringData" \in doc.has THEN RedactMap(@) ELSE @]

\* The recursive closure of processResourceManifest: the redacted document
\* and whether a Secret with a data field was met in it.
RECURSIVE processDocument(_)
processDocument(doc) ==
  LET secretWithData == doc.kind = "Secret" /\ "data" \in doc.has
      d1 == IF secretWithData THEN redactSecretData(doc) ELSE doc
      sub == [i \in DOMAIN doc.items |-> processDocument(doc.items[i])]
      newItems == [i \in DOMAIN doc.items |->
                     IF sub[i].hasProcessedSecrets THEN sub[i].doc ELSE doc.items[i]]
  IN [doc |-> [d1 EXCEPT !.items = newItems],
      hasProcessedSecrets |-> secretWithData \/ \E i \in DOMAIN sub : sub[i].hasProcessedSecrets]

processYamlDocument(d) ==
  IF d.t = "body" THEN Body(processDocument(d.doc).doc) ELSE d

\* The try block of processResourceManifest: threw, or the text it returns.
\* A document with errors is skipped by the loop; toString throws on it.
yamlTryBlock(text) ==
  LET documents == parseAllDocuments(text) IN
    IF Len(documents) = 0 THEN [threw |-> FALSE, out |-> text]
    ELSE IF \E i \in DOMAIN documents : documents[i].t = "bad"
         THEN [threw |-> TRUE, out |-> text]
         ELSE [threw |-> FALSE,
               out |-> Text("yaml", "lib",
                   JoinDocuments([i \in DOMAIN documents |-> processYamlDocument(documents[i])]))]

processResourceManifest_dropsInvalid(text, cfg) ==
  IF text.toks = <<>> \/ ~cfg.redactSecrets \/ ~LooksLikeManifest(text)
  THEN [out |-> text, raised |-> FALSE]
  ELSE LET documents == parseAllDocuments(text)
           valid == SelectSeq(documents, LAMBDA d : d.t # "bad")
       IN [out |-> Text("yaml", "lib",
                     JoinDocuments([i \in DOMAIN valid |-> processYamlDocument(valid[i])])),
           raised |-> FALSE]

processResourceManifest(text, cfg) ==
  IF text.toks = <<>> THEN [out |-> text, raised |-> FALSE]
  ELSE IF ~cfg.redactSecrets THEN [out |-> text, raised |-> FALSE]
  ELSE IF ~LooksLikeManifest(text) THEN [out |-> text, raised |-> FALSE]
  ELSE LET r == yamlTryBlock(text) IN
    IF r.threw THEN [out |-> text, raised |-> FALSE]      \* catch: return yamlString
    ELSE [out |-> r.out, raised |-> FALSE]

\* The loop body over resourceData.items / the single-resource branch.
redactJsonItem(item) ==
  IF item.kind = "Secret" /\ "data" \in item.has
  THEN [item EXCEPT !.data = RedactMap(@)]
  ELSE item

\* A bare array has no items property and no kind: nothing is redacted.
redactJsonValue(v) ==
  IF v.t = "array" THEN v
  ELSE IF "items" \in v.doc.has
       THEN JsonObject([v.doc EXCEPT !.items = [i \in DOMAIN @ |-> redactJsonItem(@[i])]])
       ELSE JsonObject(redactJsonItem(v.doc))

\* The try block of processJsonResourceManifest: JSON.parse throws on a
\* text that is not JSON; JSON.stringify writes the compact style.
jsonTryBlock(text) ==
  IF text.toks[1].t = "bad" THEN [threw |-> TRUE, out |-> text]
  ELSE [threw |-> FALSE, out |-> Text("json", "lib", <<redactJsonValue(text.toks[1])>>)]

processJsonResourceManifest(text, cfg) ==
  IF text.toks = <<>> THEN [out |-> text, raised |-> FALSE]
  ELSE IF ~cfg.redactSecrets THEN [out |-> text, raised |-> FALSE]
  ELSE IF ~LooksLikeManifest(text) THEN [out |-> text, raised |-> FALSE]
  ELSE LET r == jsonTryBlock(text) IN
    IF r.threw THEN [out |-> text, raised |-> FALSE]      \* catch: return jsonString
    ELSE [out |-> r.out, raised |-> FALSE]

Redactor(f, text, cfg) ==
  IF f = "yaml" THEN processResourceManifest(text, cfg)
  ELSE processJsonResourceManifest(text, cfg)

\* ------------------------------------------------- redactor as a machine
NoText == Text("none", "raw", <<>>)
NoCommand == [verb |-> "", namespace |-> "", flag |-> ""]

NoData == [output |-> NoText, command |-> NoCommand]
NoRendered == [namespaceNames |-> <<>>, namespaceData |-> NoData,
               resourcesByNamespace |-> <<>>, fetchedOutputBlocks |-> <<>>,
               podDiagnostics |-> <<>>, resourceTreeString |-> <<>>, called |-> FALSE]

\* The orchestrator before / outside a run.
AggregatorAt(p) ==
  /\ pc = p
  /\ failedAt = "none"
  /\ threw = {}
  /\ namespaceNames = <<>>
  /\ namespaceData = NoData
  /\ tasks = <<>>
  /\ resourcesByNamespace = <<>>
  /\ totalResourceCounts = <<>>
  /\ fetchedOutputBlocks = <<>>
  /\ twinBlocks = <<>>
  /\ candidates = <<>>
  /\ podDiagnostics = <<>>
  /\ rendered = NoRendered
  /\ written = NoRendered
  /\ calls = <<>>
  /\ writes = {}
  /\ attempts = <<>>

\* The redactor outside a check of it.
RedactorOff ==
  /\ input = NoText /\ fn = "none" /\ result = NoText /\ result2 = NoText
  /\ raised = FALSE /\ rpc = "off"

\* defaultConfig = kubeAggregatorConfigDefaultSchema.parse({})
defaultConfig ==
  MkConfig(TRUE, "text", TRUE,
           [namespaces |-> <<>>,
            excludeNamespaces |-> <<"kube-system", "kube-public", "kube-node-lease">>,
            includeResourceTypes |-> <<>>,
            excludeResourceTypes |-> <<"events">>])

\* Scope resolution outside a check of it.
ScopeOff ==
  /\ fileConfig = NoPartial
  /\ cliConfig = NoPartial
  /\ allNamespaceNames = <<>>
  /\ namespacesToConsider = <<>>
  /\ resourceTypesToFetch = <<>>
  /\ sharedDefaultConfig = defaultConfig
  /\ mergeCalls = 0
  /\ spc = "off"

\* The health classifier outside a check of it.
HealthOff ==
  /\ podManifest = NoDoc
  /\ failing = FALSE
  /\ hpc = "off"

NoCall == [namespace |-> "", types |-> <<>>, kubeconfigPath |-> "", context |-> "",
           outputFormat |-> "text"]
NoExec == [threw |-> FALSE, command |-> <<>>, error |-> "none", stdout |-> ""]

\* The kubectl wrapper outside a check of it.
KubectlOff ==
  /\ kubectlCall = NoCall
  /\ execResult = NoExec
  /\ returnedData = [output |-> "", command |-> <<>>]
  /\ kpc = "off"

InitRedact ==
  /\ config \in {MkConfig(r, "yaml", TRUE, NoFilter) : r \in BOOLEAN}
  /\ AggregatorAt("idle")
  /\ ScopeOff
  /\ HealthOff
  /\ KubectlOff
  /\ fn \in {"yaml", "json"}
  /\ input \in (IF fn = "yaml" THEN YamlInputs ELSE JsonInputs)
  /\ result = NoText
  /\ result2 = NoText
  /\ raised = FALSE
  /\ rpc = "ready"

Redact ==
  /\ rpc = "ready"
  /\ LET r == Redactor(fn, input, config) IN
       /\ result' = r.out
       /\ raised' = r.raised
  /\ rpc' = "once"
  /\ UNCHANGED <<config, input, fn, result2, avars, svars, hvars, kvars>>

RedactAgain ==
  /\ rpc = "once"
  /\ LET r == Redactor(fn, result, config) IN
       /\ result2' = r.out
       /\ raised' = (raised \/ r.raised)
  /\ rpc' = "twice"
  /\ UNCHANGED <<config, input, fn, result, avars, svars, hvars, kvars>>

NextRedact == Redact \/ RedactAgain

SpecRedact == InitRedact /\ [][NextRedact]_vars

\* =================================================== aggregateResources
NsNames == <<"a", "b", "c", "d">>

\* What `kubectl get namespaces -o name` lists: the first n namespaces.
Discovered(n) == [i \in 1..n |-> NsNames[i]]

Range(f) == {f[i] : i \in DOMAIN f}
Put(f, k, v) == [x \in DOMAIN f \cup {k} |-> IF x = k THEN v ELSE f[x]]

DEFAULT_RESOURCE_TYPES ==
  <<"pods", "services", "deployments", "configmaps", "secrets", "statefulsets",
    "daemonsets", "replicasets", "ingresses", "persistentvolumeclaims">>

getResourceTypesToFetch_noFallback(cfg) ==
  LET base == IF Len(cfg.filter.includeResourceTypes) > 0
              THEN cfg.filter.includeResourceTypes ELSE DEFAULT_RESOURCE_TYPES
  IN SelectSeq(base, LAMBDA t : t \notin Range(cfg.filter.excludeResourceTypes))

getResourceTypesToFetch(cfg) ==
  LET base == IF Len(cfg.filter.includeResourceTypes) > 0
              THEN cfg.filter.includeResourceTypes ELSE DEFAULT_RESOURCE_TYPES
      types == SelectSeq(base, LAMBDA t : t \notin Range(cfg.filter.excludeResourceTypes))
  IN IF Len(types) = 0 THEN <<"pods">> ELSE types

getNamespacesToQuery(cfg, availableNamespaces) ==
  LET base == IF Len(cfg.filter.namespaces) > 0
              THEN cfg.filter.namespaces ELSE availableNamespaces
  IN SelectSeq(base, LAMBDA ns : ns \notin Range(cfg.filter.excludeNamespaces))

\* resourceTypes.includes('all') ? ['all'] : resourceTypes
typesToFetch(cfg) ==
  LET resourceTypes == getResourceTypesToFetch(cfg)
  IN IF "all" \in Range(resourceTypes) THEN <<"all">> ELSE resourceTypes

\* --------------------------------------------------- getResourcesByName
\* One line of `kubectl get ... -o name`: <<prefix, name>> for "prefix/name".
NameLineSets ==
  { <<>>,
    << <<"secret", "s1">>, <<"pod", "p2">>, <<"deployment.apps", "d1">>, <<"pod", "p1">> >> }

\* kind.includes('.') ? normalizedKinds[kindBase] || kindBase + 's' : kind
normalizeKind(prefix) ==
  IF prefix = "deployment.apps" THEN "deployments"
  ELSE IF prefix = "replicaset.apps" THEN "replicasets"
  ELSE IF prefix = "statefulset.apps" THEN "statefulsets"
  ELSE IF prefix = "daemonset.apps" THEN "daemonsets"
  ELSE IF prefix = "job.batch" THEN "jobs"
  ELSE IF prefix = "cronjob.batch" THEN "cronjobs"
  ELSE prefix

RECURSIVE addNameLines(_, _)
addNameLines(res, lines) ==
  IF Len(lines) = 0 THEN res
  ELSE LET kind == normalizeKind(lines[1][1])
           prev == IF kind \in DOMAIN res THEN res[kind] ELSE <<>>
       IN addNameLines(Put(res, kind, Append(prev, lines[1][2])), Tail(lines))

\* An empty array per requested type, then the names found, by kind; a failed
\* kubectl call is swallowed and gives the initialised empty result.
getResourcesByName(types, kubectl) ==
  LET init == [t \in Range(types) |-> <<>>]
  IN IF kubectl.ok THEN addNameLines(init, kubectl.lines) ELSE init

\* ---------------------------------------------------- getResourcesOutput
PodFailed == PodDoc("p1", "Failed", 0, "")
PodRunning == PodDoc("p2", "Running", 0, "")
SecretItem ==
  MkDoc("Secret", {"data"}, [k \in {"a", "b"} |-> IF k = "a" THEN "x1" ELSE "y2"], EmptyMap, <<>>)
ConfigMapItem == MkDoc("ConfigMap", {"data"}, [k \in {"a"} |-> "x1"], EmptyMap, <<>>)

\* A running Pod whose manifest holds an empty `items` array (the items of a
\* volume source): its YAML has a line `items: []`.
PodWithEmptyItems == [PodDoc("p2", "Running", 0, "") EXCEPT !.has = @ \cup {"items"}]

\* The items of the List that `kubectl get <types> -n <ns> -o yaml|json` prints.
ResponseItems ==
  { <<>>, <<ConfigMapItem, SecretItem>>, <<PodFailed, SecretItem>>, <<PodRunning>>,
    <<PodWithEmptyItems>> }

\* How many manifests a stdout of kubectl holds.
ManifestsIn(stdout) ==
  IF stdout.toks = <<>> THEN 0
  ELSE IF stdout.toks[1].t \in {"body", "object"} THEN Len(stdout.toks[1].doc.items)
  ELSE 1

TableText == Text("table", "raw", <<Tok("table", NoDoc, <<>>, FALSE)>>)

Stdouts(outputFormat) ==
  IF outputFormat = "yaml"
  THEN {Text("yaml", "raw", <<Body(ListOf(its))>>) : its \in ResponseItems}
  ELSE IF outputFormat = "json"
  THEN {Text("json", "raw", <<JsonObject(ListOf(its))>>) : its \in ResponseItems}
  ELSE {TableText, EmptyText("table")}

Command(verb, namespace, outputFormat) ==
  [verb |-> verb, namespace |-> namespace,
   flag |-> IF outputFormat = "text" THEN "wide" ELSE outputFormat]

RECURSIVE HasEmptyItems(_)
HasEmptyItems(doc) ==
  \/ "items" \in doc.has /\ doc.items = <<>>
  \/ \E i \in DOMAIN doc.items : HasEmptyItems(doc.items[i])

\* stdout.includes('items: []') for yaml, stdout.includes('"items": []') for
\* json as kubectl prints it (with a space after the colon).
IncludesEmptyItems(text) ==
  /\ text.style = "raw"
  /\ \E i \in DOMAIN text.toks :
       text.toks[i].t \in {"body", "object"} /\ HasEmptyItems(text.toks[i].doc)

\* kubectl: [ok, stdout]. A failed call is swallowed: empty output.
getResourcesOutput(namespace, outputFormat, kubectl) ==
  LET command == Command("get", namespace, outputFormat)
  IN IF ~kubectl.ok THEN [output |-> EmptyText("table"), command |-> command]
     ELSE IF \/ kubectl.stdout.toks = <<>>
             \/ outputFormat \in {"yaml", "json"} /\ IncludesEmptyItems(kubectl.stdout)
          THEN [output |-> EmptyText("table"), command |-> command]
          ELSE [output |-> kubectl.stdout, command |-> command]

\* -------------------------------------------- redaction of a fetched text
\* output.trim().startsWith('apiVersion:') || output.includes('\napiVersion:')
AppearsYaml(output) ==
  output.form = "yaml" /\ \E i \in DOMAIN output.toks : output.toks[i].t = "body"

detectFormat_yamlOnly(command, output, outputFormat) ==
  IF command.flag = "yaml" \/ AppearsYaml(output) THEN "yaml" ELSE "text"

\* actualFormat: from the command's -o flag, forced to yaml by the content.
detectFormat(command, output, outputFormat) ==
  LET fromCommand == IF command.flag = "yaml" THEN "yaml"
                     ELSE IF command.flag = "json" THEN "json"
                     ELSE outputFormat
  IN IF AppearsYaml(output) THEN "yaml" ELSE fromCommand

processOutput(data, cfg) ==
  IF ~cfg.redactSecrets THEN data.output
  ELSE LET actualFormat == detectFormat(data.command, data.output, cfg.outputFormat)
       IN IF actualFormat = "yaml" THEN processResourceManifest(data.output, cfg).out
          ELSE IF actualFormat = "json" THEN processJsonResourceManifest(data.output, cfg).out
          ELSE data.output

\* ---------------------------------------------------------- the twin run
\* A second run whose kubectl responses differ only in Secret data values.
OtherVal(v) == IF v = "x1" THEN "y2" ELSE IF v = "y2" THEN "x1" ELSE v

RECURSIVE VariantDoc(_)
VariantDoc(doc) ==
  [doc EXCEPT !.data = IF doc.kind = "Secret" THEN [k \in DOMAIN @ |-> OtherVal(@[k])] ELSE @,
              !.items = [i \in DOMAIN @ |-> VariantDoc(@[i])]]

Variant(text) ==
  [text EXCEPT !.toks = [i \in DOMAIN @ |-> [@[i] EXCEPT !.doc = VariantDoc(@)]]]

\* ------------------------------------------------------------ diagnostics
problematicReasons ==
  {"CrashLoopBackOff", "ImagePullBackOff", "ErrImagePull", "CreateContainerError"}

\* The loop over status.containerStatuses from entry i on: it returns true
\* at the first entry with restartCount > 3 or a problematic waiting reason,
\* throws at a null entry, and falls through to false.
RECURSIVE containerLoop(_, _)
containerLoop(containerStatuses, i) ==
  IF i > Len(containerStatuses) THEN [threw |-> FALSE, failing |-> FALSE]
  ELSE IF containerStatuses[i].isNull THEN [threw |-> TRUE, failing |-> FALSE]
  ELSE IF containerStatuses[i].restartCount > 3 THEN [threw |-> FALSE, failing |-> TRUE]
  ELSE IF containerStatuses[i].waiting \in problematicReasons
       THEN [threw |-> FALSE, failing |-> TRUE]
       ELSE containerLoop(containerStatuses, i + 1)

\* The try block of isPodFailing.
podTryBlock(doc) ==
  IF doc.kind # "Pod" THEN [threw |-> FALSE, failing |-> FALSE]
  ELSE IF doc.status.phase \notin {"Running", "Succeeded"}
       THEN [threw |-> FALSE, failing |-> TRUE]
       ELSE containerLoop(doc.status.containerStatuses, 1)

isPodFailing_failingOnError(doc) ==
  LET r == podTryBlock(doc) IN IF r.threw THEN TRUE ELSE r.failing

\* catch: "default to considering it healthy"
isPodFailing(doc) ==
  LET r == podTryBlock(doc) IN IF r.threw THEN FALSE ELSE r.failing

RECURSIVE findFailingPods(_, _)
RECURSIVE findFailingPodsIn(_, _)
findFailingPods(resource, ns) ==
  IF resource.kind = "Pod"
  THEN IF isPodFailing(resource) /\ resource.name # ""
       THEN <<[namespace |-> ns, podName |-> resource.name]>> ELSE <<>>
  ELSE IF resource.kind = "List" /\ "items" \in resource.has
       THEN findFailingPodsIn(resource.items, ns) ELSE <<>>
findFailingPodsIn(resources, ns) ==
  IF Len(resources) = 0 THEN <<>>
  ELSE findFailingPods(resources[1], ns) \o findFailingPodsIn(Tail(resources), ns)

\* The resources the diagnostics step reads out of one block; a block in a
\* format it cannot parse, or that fails to parse, gives none.
blockResources(block) ==
  IF block.output.toks = <<>> THEN <<>>
  ELSE IF block.command.flag = "yaml"
  THEN LET ds == SelectSeq(parseAllDocuments(block.output), LAMBDA d : d.t = "body")
       IN [i \in DOMAIN ds |-> ds[i].doc]
  ELSE IF block.command.flag = "json"
  THEN IF block.output.form # "json" \/ block.output.toks[1].t # "object" THEN <<>>
       ELSE IF "items" \in block.output.toks[1].doc.has THEN block.output.toks[1].doc.items
       ELSE <<block.output.toks[1].doc>>
  ELSE <<>>

RECURSIVE failingPodsOfBlocks(_)
failingPodsOfBlocks(blocks) ==
  IF Len(blocks) = 0 THEN <<>>
  ELSE findFailingPodsIn(blockResources(blocks[1]), blocks[1].namespace)
       \o failingPodsOfBlocks(Tail(blocks))

\* What the three calls for one pod did: "ok", "failed" (kubectl failed, the
\* wrapper returned its error text), "throw" (the call threw), "skipped".
DiagOutcomes ==
  { <<"ok", "ok", "ok">>, <<"ok", "ok", "failed">>, <<"failed", "failed", "failed">>,
    <<"throw", "skipped", "skipped">>, <<"ok", "throw", "skipped">>, <<"ok", "ok", "throw">> }

\* describePod: the stdout of `kubectl describe pod`, or the error text.
describePod(kubectl) ==
  IF kubectl = "ok" THEN "description" ELSE "(Error describing pod)"

getPodLogs_emptyPrevious(previous, kubectl) ==
  IF kubectl = "ok" THEN (IF previous THEN "previous logs" ELSE "logs")
  ELSE IF previous THEN "" ELSE "(Error fetching logs)"

\* getPodLogs: the stdout of `kubectl logs [--previous]`; when kubectl fails,
\* the marker for previous logs, the error text for current logs.
getPodLogs(previous, kubectl) ==
  IF kubectl = "ok" THEN (IF previous THEN "previous logs" ELSE "logs")
  ELSE IF previous THEN "(No previous container logs available)"
       ELSE "(Error fetching logs)"

\* The record pushed for one failing pod: by the try block when the three
\* calls returned, by its catch when one of them threw.
diagnosticsRecord(pod, o) ==
  IF "throw" \in Range(o)
  THEN [namespace |-> pod.namespace, podName |-> pod.podName,
        description |-> "Error fetching pod description",
        logs |-> "Error fetching logs",
        prevLogs |-> "", error |-> "thrown"]
  ELSE [namespace |-> pod.namespace, podName |-> pod.podName,
        description |-> describePod(o[1]),
        logs |-> getPodLogs(FALSE, o[2]),
        prevLogs |-> getPodLogs(TRUE, o[3]),
        error |-> ""]

gatherDiagnostics_dropsOnError(records, pod, o) ==
  IF "throw" \in Range(o) THEN records ELSE Append(records, diagnosticsRecord(pod, o))

\* The body of the loop over the failing pods: one record per pod.
gatherDiagnostics(records, pod, o) == Append(records, diagnosticsRecord(pod, o))

failingPodsToDiagnose_ignoresConfig(cfg, blocks) == failingPodsOfBlocks(blocks)

\* Step 3 is entered only if config.diagnostics.includeFailingPods !== false.
failingPodsToDiagnose(cfg, blocks) ==
  IF cfg.includeFailingPods THEN failingPodsOfBlocks(blocks) ELSE <<>>

\* ------------------------------------------------------- external calls
Call(op, namespace, podName) == [op |-> op, namespace |-> namespace, podName |-> podName]

Issued(c, call) == IF call \in DOMAIN c THEN c[call] ELSE 0

Issue(c, call) == Put(c, call, Issued(c, call) + 1)

\* The calls made for one failing pod: describe, then logs, then previous
\* logs; a call that throws skips the calls after it.
diagnosticsCalls(c, pod, o) ==
  LET c1 == Issue(c, Call("describePod", pod.namespace, pod.podName))
      c2 == IF o[2] # "skipped"
            THEN Issue(c1, Call("getPodLogs", pod.namespace, pod.podName)) ELSE c1
  IN IF o[3] # "skipped"
     THEN Issue(c2, Call("getPodLogsPrevious", pod.namespace, pod.podName)) ELSE c2

allSettled_any(ts) == ts = <<>> \/ \E i \in DOMAIN ts : ts[i].at = "settled"

\* await Promise.all(...): every task's promise settled (no task rejects).
allSettled(ts) == \A i \in DOMAIN ts : ts[i].at = "settled"

\* ------------------------------------------------------- error handling
Propagates_clipboard(step) ==
  step \in {"getNamespaceNames", "getNamespacesOutput", "generateOutput",
            "writeOutputToDisk", "copyToClipboardIfEnabled"}

\* The catch blocks that rethrow; every other catch logs and goes on.
Propagates(step) ==
  step \in {"getNamespaceNames", "getNamespacesOutput", "generateOutput", "writeOutputToDisk"}

storeOnError_keeps(rbn, namespace) == rbn

storeOnError_clearsAll(rbn, namespace) == [k \in DOMAIN rbn \cup {namespace} |-> <<>>]

\* The catch of a namespace task: resourcesByNamespace[namespace] = {}
storeOnError(rbn, namespace) == Put(rbn, namespace, <<>>)

\* ------------------------------------------------------ the resource tree
\* The strings of the model in the order of localeCompare.
Lexicon ==
  <<"a", "A", "all", "b", "c", "configmaps", "d", "d1", "daemonsets", "deployments",
    "events", "ingresses", "kube-system", "p1", "p2", "persistentvolumeclaims", "pod",
    "pods", "replicasets", "s1", "secret", "secrets", "services", "statefulsets">>

localeRank == [s \in Range(Lexicon) |-> CHOOSE i \in DOMAIN Lexicon : Lexicon[i] = s]

resourceKindDisplayOrder == <<"configmaps", "deployments", "pods", "secrets", "services">>

\* The comparator of the kinds: the kinds of the display order first, in that
\* order, then the other kinds alphabetically.
kindRank ==
  [k \in Range(Lexicon) |->
     IF k \in Range(resourceKindDisplayOrder)
     THEN CHOOSE i \in DOMAIN resourceKindDisplayOrder : resourceKindDisplayOrder[i] = k
     ELSE Len(resourceKindDisplayOrder) + localeRank[k]]

\* Array.prototype.sort with the comparator given by rank (stable).
RECURSIVE sortBy(_, _)
sortBy(seq, rank) ==
  IF Len(seq) = 0 THEN <<>>
  ELSE LET front == sortBy(SubSeq(seq, 1, Len(seq) - 1), rank)
           x == seq[Len(seq)]
           n == Cardinality({i \in DOMAIN front : rank[front[i]] <= rank[x]})
       IN SubSeq(front, 1, n) \o <<x>> \o SubSeq(front, n + 1, Len(front))

\* Object.keys(...)
RECURSIVE keysOf(_)
keysOf(S) ==
  IF S = {} THEN <<>> ELSE LET k == CHOOSE x \in S : TRUE IN <<k>> \o keysOf(S \ {k})

\* One line of the tree: its indentation, its text, and the "# none" marker.
TreeLine(indent, text, none) == [indent |-> indent, text |-> text, none |-> none]

\* The lines of one kind: `  kind:` and one line per name, sorted.
kindLines(kind, resources) ==
  IF Len(resources) > 0
  THEN <<TreeLine(2, kind, FALSE)>>
       \o [i \in 1..Len(resources) |-> TreeLine(4, sortBy(resources, localeRank)[i], FALSE)]
  ELSE <<TreeLine(2, kind, TRUE)>>

RECURSIVE kindsLines(_, _)
kindsLines(sortedKinds, namespaceResources) ==
  IF Len(sortedKinds) = 0 THEN <<>>
  ELSE kindLines(sortedKinds[1], namespaceResources[sortedKinds[1]])
       \o kindsLines(Tail(sortedKinds), namespaceResources)

namespaceLines_skipsEmpty(namespace, rbn) ==
  LET namespaceResources == IF namespace \in DOMAIN rbn THEN rbn[namespace] ELSE <<>>
      existingKinds == {k \in DOMAIN namespaceResources : Len(namespaceResources[k]) > 0}
  IN IF existingKinds = {} THEN <<>>
     ELSE <<TreeLine(0, namespace, FALSE)>>
          \o kindsLines(sortBy(keysOf(existingKinds), kindRank), namespaceResources)

\* The body of the loop over the sorted namespaces: the namespace line, then
\* the kinds that have names; nothing more for a namespace that has none.
namespaceLines(namespace, rbn) ==
  LET namespaceResources == IF namespace \in DOMAIN rbn THEN rbn[namespace] ELSE <<>>
      existingKinds == {k \in DOMAIN namespaceResources : Len(namespaceResources[k]) > 0}
  IN <<TreeLine(0, namespace, FALSE)>>
     \o (IF existingKinds = {} THEN <<>>
         ELSE kindsLines(sortBy(keysOf(existingKinds), kindRank), namespaceResources))

RECURSIVE treeLines(_, _)
treeLines(sortedNamespaces, rbn) ==
  IF Len(sortedNamespaces) = 0 THEN <<>>
  ELSE namespaceLines(sortedNamespaces[1], rbn) \o treeLines(Tail(sortedNamespaces), rbn)

NoNamespacesLine == TreeLine(0, "(No namespaces found or retrieved)", FALSE)

\* The tree as its lines (the string is their join with newlines).
generateResourceTreeString(namespaces, rbn) ==
  IF Len(namespaces) = 0 THEN <<NoNamespacesLine>>
  ELSE treeLines(sortBy(namespaces, localeRank), rbn)

\* ------------------------------------------------------------- the run
Formats == {"text", "yaml", "json"}

Filters ==
  { NoFilter,
    [NoFilter EXCEPT !.namespaces = <<"a", "a">>],
    [NoFilter EXCEPT !.excludeNamespaces = <<"b">>] }

RunConfigs ==
  {MkConfig(TRUE, f, TRUE, flt) : f \in Formats, flt \in Filters}
  \cup {MkConfig(FALSE, f, TRUE, NoFilter) : f \in {"yaml", "json"}}
  \cup {MkConfig(TRUE, "yaml", FALSE, NoFilter)}
  \cup {MkConfig(TRUE, "text", TRUE,
                 [NoFilter EXCEPT !.includeResourceTypes = <<"pods">>,
                                  !.excludeResourceTypes = <<"pods">>])}

Init ==
  /\ config \in RunConfigs
  /\ AggregatorAt("getNamespaceNames")
  /\ RedactorOff
  /\ ScopeOff
  /\ HealthOff
  /\ KubectlOff

\* A call at a step threw: the run ends if the step's catch rethrows.
Throw(step, next) ==
  /\ threw' = threw \cup {step}
  /\ IF Propagates(step)
     THEN pc' = "failed" /\ failedAt' = step
     ELSE pc' = next /\ failedAt' = failedAt

\* Step 1, first half: list the namespaces and resolve the scope.
GetNamespaceNames ==
  /\ pc = "getNamespaceNames"
  /\ calls' = Issue(calls, Call("getNamespaceNames", "", ""))
  /\ \/ /\ Throw("getNamespaceNames", "failed")
        /\ UNCHANGED namespaceNames
     \/ \E n \in 0..MaxNamespaces :
          /\ namespaceNames' = getNamespacesToQuery(config, Discovered(n))
          /\ pc' = "getNamespacesOutput"
          /\ UNCHANGED <<threw, failedAt>>
  /\ UNCHANGED <<config, rvars, svars, hvars, kvars, namespaceData, tasks, resourcesByNamespace,
                 totalResourceCounts, fetchedOutputBlocks, twinBlocks, candidates,
                 podDiagnostics, rendered, written, writes, attempts>>

\* Step 1, second half: fetch the namespaces in the output format, redact
\* it, and start one task per resolved namespace.
GetNamespacesOutput ==
  /\ pc = "getNamespacesOutput"
  /\ calls' = Issue(calls, Call("getNamespacesOutput", "", ""))
  /\ \/ /\ Throw("getNamespacesOutput", "failed")
        /\ UNCHANGED <<namespaceData, tasks>>
     \/ /\ LET fetched == [output |-> IF config.outputFormat = "yaml"
                                       THEN Text("yaml", "raw", <<Body(ListOf(<<>>))>>)
                                       ELSE IF config.outputFormat = "json"
                                       THEN Text("json", "raw", <<JsonObject(ListOf(<<>>))>>)
                                       ELSE TableText,
                           command |-> Command("get", "", config.outputFormat)]
           IN namespaceData' = [fetched EXCEPT !.output = processOutput(fetched, config)]
        /\ tasks' = [i \in DOMAIN namespaceNames |->
                       [at |-> "getResourcesByName", outcome |-> "pending", fetched |-> 0]]
        /\ pc' = "fetching"
        /\ UNCHANGED <<threw, failedAt>>
  /\ UNCHANGED <<config, rvars, svars, hvars, kvars, namespaceNames, resourcesByNamespace,
                 totalResourceCounts, fetchedOutputBlocks, twinBlocks, candidates,
                 podDiagnostics, rendered, written, writes, attempts>>

RECURSIVE addCounts(_, _, _)
\* totalResourceCounts[kind] += resources.length, for the kinds in ks
addCounts(counts, byKind, ks) ==
  IF ks = {} THEN counts
  ELSE LET kind == CHOOSE k \in ks : TRUE
           prev == IF kind \in DOMAIN counts THEN counts[kind] ELSE 0
       IN addCounts(Put(counts, kind, prev + Len(byKind[kind])), byKind, ks \ {kind})

Settle(i, outcome) ==
  tasks' = [tasks EXCEPT ![i].at = "settled", ![i].outcome = outcome]

\* The task settled after kubectl printed `fetched` manifests for it.
SettleFetched(i, outcome, fetched) ==
  tasks' = [tasks EXCEPT ![i] = [at |-> "settled", outcome |-> outcome, fetched |-> fetched]]

\* The keys of a map whose entry a step set to a new value.
WrittenKeys(old, new) == {k \in DOMAIN new : k \notin DOMAIN old \/ new[k] # old[k]}

\* The entries of the shared structures that the step of task i set.
TaskWrites(i) ==
  {<<i, "resourcesByNamespace", k>> :
     k \in WrittenKeys(resourcesByNamespace, resourcesByNamespace')}
  \cup {<<i, "totalResourceCounts", k>> :
     k \in WrittenKeys(totalResourceCounts, totalResourceCounts')}
  \cup {<<i, "fetchedOutputBlocks", j>> :
     j \in DOMAIN fetchedOutputBlocks' \ DOMAIN fetchedOutputBlocks}

\* A namespace task up to its first await: getResourcesByName returned or threw.
TaskGetResourcesByName(i) ==
  /\ pc = "fetching"
  /\ tasks[i].at = "getResourcesByName"
  /\ LET namespace == namespaceNames[i] IN
     \/ /\ Throw("namespaceTask", "fetching")
        /\ resourcesByNamespace' = storeOnError(resourcesByNamespace, namespace)
        /\ Settle(i, "threw")
        /\ UNCHANGED totalResourceCounts
     \/ \E kubectl \in {[ok |-> TRUE, lines |-> ls] : ls \in NameLineSets}
                       \cup {[ok |-> FALSE, lines |-> <<>>]} :
          LET resourcesByKind == getResourcesByName(typesToFetch(config), kubectl)
              hasAnyResources == \E k \in DOMAIN resourcesByKind : Len(resourcesByKind[k]) > 0
          IN /\ resourcesByNamespace' = Put(resourcesByNamespace, namespace, resourcesByKind)
             /\ totalResourceCounts' =
                  addCounts(totalResourceCounts, resourcesByKind, DOMAIN resourcesByKind)
             /\ IF hasAnyResources
                THEN tasks' = [tasks EXCEPT ![i].at = "getResourcesOutput"]
                ELSE Settle(i, "noResources")
             /\ UNCHANGED <<pc, threw, failedAt>>
  /\ UNCHANGED <<config, rvars, svars, hvars, kvars, namespaceNames, namespaceData,
                 fetchedOutputBlocks, twinBlocks, candidates, podDiagnostics, rendered,
                 written, attempts>>
  /\ calls' = Issue(calls, Call("getResourcesByName", namespaceNames[i], ""))
  /\ writes' = writes \cup TaskWrites(i)

\* A namespace task after its second await: getResourcesOutput returned or
\* threw; a non-empty output is redacted and pushed as a block.
TaskGetResourcesOutput(i) ==
  /\ pc = "fetching"
  /\ tasks[i].at = "getResourcesOutput"
  /\ LET namespace == namespaceNames[i] IN
     \/ /\ Throw("namespaceTask", "fetching")
        /\ resourcesByNamespace' = storeOnError(resourcesByNamespace, namespace)
        /\ Settle(i, "threw")
        /\ UNCHANGED <<fetchedOutputBlocks, twinBlocks>>
     \/ \E kubectl \in {[ok |-> TRUE, stdout |-> t] : t \in Stdouts(config.outputFormat)}
                       \cup {[ok |-> FALSE, stdout |-> NoText]} :
          LET resourceData == getResourcesOutput(namespace, config.outputFormat, kubectl)
              twinData == getResourcesOutput(namespace, config.outputFormat,
                                             [kubectl EXCEPT !.stdout = Variant(@)])
          IN /\ IF resourceData.output.toks # <<>>
                THEN /\ fetchedOutputBlocks' = Append(fetchedOutputBlocks,
                            [namespace |-> namespace, command |-> resourceData.command,
                             output |-> processOutput(resourceData, config)])
                     /\ twinBlocks' = Append(twinBlocks,
                            [namespace |-> namespace, command |-> twinData.command,
                             output |-> processOutput(twinData, config)])
                     /\ SettleFetched(i, "block", ManifestsIn(kubectl.stdout))
                ELSE /\ SettleFetched(i, "noOutput",
                                      IF kubectl.ok THEN ManifestsIn(kubectl.stdout) ELSE 0)
                     /\ UNCHANGED <<fetchedOutputBlocks, twinBlocks>>
             /\ UNCHANGED <<pc, threw, failedAt, resourcesByNamespace>>
  /\ UNCHANGED <<config, rvars, svars, hvars, kvars, namespaceNames, namespaceData,
                 totalResourceCounts, candidates, podDiagnostics, rendered, written, attempts>>
  /\ calls' = Issue(calls, Call("getResourcesOutput", namespaceNames[i], ""))
  /\ writes' = writes \cup TaskWrites(i)

\* Promise.all resolved: every task settled. Step 3 collects the failing
\* pods of the fetched blocks, unless diagnostics are disabled.
AwaitAll ==
  /\ pc = "fetching"
  /\ allSettled(tasks)
  /\ pc' = "diagnostics"
  /\ candidates' = failingPodsToDiagnose(config, fetchedOutputBlocks)
  /\ UNCHANGED <<config, rvars, svars, hvars, kvars, failedAt, threw, namespaceNames, namespaceData,
                 tasks, resourcesByNamespace, totalResourceCounts, fetchedOutputBlocks,
                 twinBlocks, podDiagnostics, rendered, written, calls, writes, attempts>>

\* describe, logs and previous logs of the next failing pod, and its record.
GatherDiagnostics ==
  /\ pc = "diagnostics"
  /\ candidates # <<>>
  /\ \E o \in DiagOutcomes :
       /\ podDiagnostics' = gatherDiagnostics(podDiagnostics, Head(candidates), o)
       /\ calls' = diagnosticsCalls(calls, Head(candidates), o)
       /\ attempts' = Append(attempts, o)
       /\ IF "throw" \in Range(o)
          THEN Throw("diagnostics", "diagnostics")
          ELSE UNCHANGED <<pc, threw, failedAt>>
  /\ candidates' = Tail(candidates)
  /\ UNCHANGED <<config, rvars, svars, hvars, kvars, namespaceNames, namespaceData, tasks,
                 resourcesByNamespace, totalResourceCounts, fetchedOutputBlocks, twinBlocks,
                 rendered, written, writes>>

\* Step 4: generateOutput is called with the assembled data.
GenerateOutput ==
  /\ pc = "diagnostics"
  /\ candidates = <<>>
  /\ rendered' = [namespaceNames |-> namespaceNames, namespaceData |-> namespaceData,
                  resourcesByNamespace |-> resourcesByNamespace,
                  fetchedOutputBlocks |-> fetchedOutputBlocks,
                  podDiagnostics |-> podDiagnostics,
                  resourceTreeString |->
                    generateResourceTreeString(namespaceNames, resourcesByNamespace),
                  called |-> TRUE]
  /\ \/ Throw("generateOutput", "failed")
     \/ pc' = "countTokens" /\ UNCHANGED <<threw, failedAt>>
  /\ UNCHANGED <<config, rvars, svars, hvars, kvars, namespaceNames, namespaceData, tasks,
                 resourcesByNamespace, totalResourceCounts, fetchedOutputBlocks, twinBlocks,
                 candidates,
                 podDiagnostics, written, calls, writes, attempts>>

\* Token counting: a failure is logged and the count stays 0.
CountTokens ==
  /\ pc = "countTokens"
  /\ \/ Throw("countTokens", "writeOutputToDisk")
     \/ pc' = "writeOutputToDisk" /\ UNCHANGED <<threw, failedAt>>
  /\ UNCHANGED <<config, rvars, svars, hvars, kvars, namespaceNames, namespaceData, tasks,
                 resourcesByNamespace, totalResourceCounts, fetchedOutputBlocks, twinBlocks,
                 candidates,
                 podDiagnostics, rendered, written, calls, writes, attempts>>

\* Step 5: the generated string is handed to the file writer.
WriteOutputToDisk ==
  /\ pc = "writeOutputToDisk"
  /\ written' = rendered
  /\ \/ Throw("writeOutputToDisk", "failed")
     \/ pc' = "copyToClipboardIfEnabled" /\ UNCHANGED <<threw, failedAt>>
  /\ UNCHANGED <<config, rvars, svars, hvars, kvars, namespaceNames, namespaceData, tasks,
                 resourcesByNamespace, totalResourceCounts, fetchedOutputBlocks, twinBlocks,
                 candidates,
                 podDiagnostics, rendered, calls, writes, attempts>>

\* Steps 6-8: clipboard copy (a failure is logged), metrics, return.
CopyToClipboard ==
  /\ pc = "copyToClipboardIfEnabled"
  /\ \/ Throw("copyToClipboardIfEnabled", "done")
     \/ pc' = "done" /\ UNCHANGED <<threw, failedAt>>
  /\ UNCHANGED <<config, rvars, svars, hvars, kvars, namespaceNames, namespaceData, tasks,
                 resourcesByNamespace, totalResourceCounts, fetchedOutputBlocks, twinBlocks,
                 candidates,
                 podDiagnostics, rendered, written, calls, writes, attempts>>

Next ==
  \/ GetNamespaceNames
  \/ GetNamespacesOutput
  \/ \E i \in DOMAIN tasks : TaskGetResourcesByName(i)
  \/ \E i \in DOMAIN tasks : TaskGetResourcesOutput(i)
  \/ AwaitAll
  \/ GatherDiagnostics
  \/ GenerateOutput
  \/ CountTokens
  \/ WriteOutputToDisk
  \/ CopyToClipboard

Spec == Init /\ [][Next]_vars

\* ====================================================== isPodFailing
MaxContainers == 2   \* most entries of status.containerStatuses

Phases == {"", "Running", "Succeeded", "Pending", "Failed"}

\* Entries of status.containerStatuses: a healthy container, restart counts
\* at and above the threshold, a problematic and a harmless waiting reason,
\* and a null entry.
StatusEntries ==
  { ContainerStatus(0, ""), ContainerStatus(3, ""), ContainerStatus(4, ""),
    ContainerStatus(0, "CrashLoopBackOff"), ContainerStatus(0, "ContainerCreating"),
    NullStatus }

\* The documents handed to the classifier: pods of every phase (""  when the
\* status or the phase is missing) with up to MaxContainers container
\* statuses, pods waiting for each problematic reason, and documents that are
\* not pods, with and without a status.
PodManifests ==
  {PodWith("p", ph, cs) : ph \in Phases, cs \in SeqUpTo(StatusEntries, MaxContainers)}
  \cup {PodDoc("p", "Running", 0, r) : r \in problematicReasons}
  \cup {NoDoc, ConfigMapItem, SecretItem, ListOf(<<PodFailed>>)}
  \cup {[MkDoc(k, {}, EmptyMap, EmptyMap, <<>>) EXCEPT
           !.status = [phase |-> "Failed", containerStatuses |-> <<ContainerStatus(9, "")>>]] :
          k \in {"Deployment", "pod"}}

InitHealth ==
  /\ config = MkConfig(TRUE, "yaml", TRUE, NoFilter)
  /\ AggregatorAt("idle")
  /\ RedactorOff
  /\ ScopeOff
  /\ KubectlOff
  /\ podManifest \in PodManifests
  /\ failing = FALSE
  /\ hpc = "ready"

Classify ==
  /\ hpc = "ready"
  /\ failing' = isPodFailing(podManifest)
  /\ hpc' = "classified"
  /\ UNCHANGED <<config, rvars, avars, svars, kvars, podManifest>>

NextHealth == Classify

SpecHealth == InitHealth /\ [][NextHealth]_vars

\* ==================================================== scope resolution
FilterKeys == {"namespaces", "excludeNamespaces", "includeResourceTypes", "excludeResourceTypes"}

\* deepMerge: every key the source defines overwrites the target's, arrays
\* included; the nested filter object is merged key by key.
deepMerge(target, source) ==
  [redactSecrets |-> IF "redactSecrets" \in source.has
                     THEN source.redactSecrets ELSE target.redactSecrets,
   outputFormat |-> IF "outputFormat" \in source.has
                    THEN source.outputFormat ELSE target.outputFormat,
   includeFailingPods |-> IF "includeFailingPods" \in source.has
                          THEN source.includeFailingPods ELSE target.includeFailingPods,
   filter |-> [k \in FilterKeys |->
                 IF k \in source.has THEN source.filter[k] ELSE target.filter[k]]]

\* Array.from(new Set(seq)): the first occurrence of each element, in order.
RECURSIVE Dedupe(_)
Dedupe(seq) ==
  IF Len(seq) = 0 THEN <<>>
  ELSE LET front == Dedupe(SubSeq(seq, 1, Len(seq) - 1))
           last == seq[Len(seq)]
       IN IF last \in Range(front) THEN front ELSE Append(front, last)

\* cliConfig.filter.<key>?.length
CliGives(cli, k) == k \in cli.has /\ Len(cli.filter[k]) > 0

mergeCliFilter_unionNamespaces(currentFilter, cli) ==
  [namespaces |-> IF CliGives(cli, "namespaces")
                  THEN Dedupe(currentFilter.namespaces \o cli.filter.namespaces)
                  ELSE currentFilter.namespaces,
   includeResourceTypes |-> IF CliGives(cli, "includeResourceTypes")
                            THEN cli.filter.includeResourceTypes
                            ELSE currentFilter.includeResourceTypes,
   excludeNamespaces |-> IF CliGives(cli, "excludeNamespaces")
                         THEN Dedupe(currentFilter.excludeNamespaces
                                     \o cli.filter.excludeNamespaces)
                         ELSE currentFilter.excludeNamespaces,
   excludeResourceTypes |-> IF CliGives(cli, "excludeResourceTypes")
                            THEN Dedupe(currentFilter.excludeResourceTypes
                                        \o cli.filter.excludeResourceTypes)
                            ELSE currentFilter.excludeResourceTypes]

mergeCliFilter_replacesExcludes(currentFilter, cli) ==
  [k \in FilterKeys |-> IF CliGives(cli, k) THEN cli.filter[k] ELSE currentFilter[k]]

\* The special handling of the filter arrays: the command line's include
\* lists replace, its exclude lists are added to the current ones.
mergeCliFilter(currentFilter, cli) ==
  [namespaces |-> IF CliGives(cli, "namespaces")
                  THEN cli.filter.namespaces ELSE currentFilter.namespaces,
   includeResourceTypes |-> IF CliGives(cli, "includeResourceTypes")
                            THEN cli.filter.includeResourceTypes
                            ELSE currentFilter.includeResourceTypes,
   excludeNamespaces |-> IF CliGives(cli, "excludeNamespaces")
                         THEN Dedupe(currentFilter.excludeNamespaces
                                     \o cli.filter.excludeNamespaces)
                         ELSE currentFilter.excludeNamespaces,
   excludeResourceTypes |-> IF CliGives(cli, "excludeResourceTypes")
                            THEN Dedupe(currentFilter.excludeResourceTypes
                                        \o cli.filter.excludeResourceTypes)
                            ELSE currentFilter.excludeResourceTypes]

\* mergeConfigs: defaults, overlaid by the file, then the filter arrays of
\* the command line, then the command line's other options.
mergeConfigs(defaults, file, cli) ==
  LET merged == deepMerge(defaults, file)
      withFilter == [merged EXCEPT !.filter = mergeCliFilter(merged.filter, cli)]
  IN deepMerge(withFilter, [cli EXCEPT !.has = @ \ FilterKeys])

\* What mergeConfigs leaves in the shared defaultConfig: `{ ...defaultConfig }`
\* copies the top level only, so deepMerge writes the file's values and the
\* command line's options other than the filter into the nested objects of
\* defaultConfig; the command line's filter goes into a copy.
defaultConfigAfter(defaults, file, cli) ==
  deepMerge(deepMerge(defaults, file), [cli EXCEPT !.has = @ \ FilterKeys])

Partial(has, filter) == [NoPartial EXCEPT !.has = has, !.filter = filter]

\* File configurations: an include list and an exclude list, each absent,
\* empty or given; one file also sets the output format.
FileConfigs ==
  {Partial(hn \cup he, [NoFilter EXCEPT !.namespaces = n, !.excludeNamespaces = e]) :
     <<hn, n>> \in {<<{}, <<>>>>, <<{"namespaces"}, <<>>>>, <<{"namespaces"}, <<"a", "b">>>>,
                    <<{"namespaces"}, <<"kube-system", "a">>>>},
     <<he, e>> \in {<<{}, <<>>>>, <<{"excludeNamespaces"}, <<>>>>,
                    <<{"excludeNamespaces"}, <<"b">>>>, <<{"excludeNamespaces"}, <<"A">>>>}}
  \cup {[Partial({"outputFormat"}, NoFilter) EXCEPT !.outputFormat = "yaml"]}
  \cup {Partial({"includeResourceTypes"},
                [NoFilter EXCEPT !.includeResourceTypes = <<"pods", "secrets">>]),
        Partial({"includeResourceTypes"}, [NoFilter EXCEPT !.includeResourceTypes = <<"events">>]),
        Partial({"excludeResourceTypes"},
                [NoFilter EXCEPT !.excludeResourceTypes = <<"secrets">>])}

\* Command lines: -n and --exclude-namespace, each absent or given; one
\* command line also gives --no-redact-secrets and --format json.
CliConfigs ==
  {Partial(hn \cup he, [NoFilter EXCEPT !.namespaces = n, !.excludeNamespaces = e]) :
     <<hn, n>> \in {<<{}, <<>>>>, <<{"namespaces"}, <<"b">>>>, <<{"namespaces"}, <<"a", "A">>>>},
     <<he, e>> \in {<<{}, <<>>>>, <<{"excludeNamespaces"}, <<"b">>>>,
                    <<{"excludeNamespaces"}, <<"a", "kube-system">>>>,
                    <<{"excludeNamespaces"}, <<"B">>>>}}
  \cup {[Partial({"redactSecrets", "outputFormat"}, NoFilter) EXCEPT
           !.redactSecrets = FALSE, !.outputFormat = "json"]}
  \cup {Partial({"namespaces"}, [NoFilter EXCEPT !.namespaces = <<"a", "b", "a">>]),
        Partial({"includeResourceTypes"},
                [NoFilter EXCEPT !.includeResourceTypes = <<"pods", "pods">>]),
        Partial({"includeResourceTypes"}, [NoFilter EXCEPT !.includeResourceTypes = <<"events">>]),
        Partial({"excludeResourceTypes"}, [NoFilter EXCEPT !.excludeResourceTypes = <<"pods">>]),
        Partial({"includeResourceTypes", "excludeResourceTypes"},
                [NoFilter EXCEPT !.includeResourceTypes = <<"secrets">>,
                                 !.excludeResourceTypes = <<"secrets">>])}

\* What `kubectl get namespaces -o name` lists.
Clusters == {<<>>, <<"a", "b">>, <<"kube-system", "a", "A", "b">>}

InitScope ==
  /\ config = defaultConfig
  /\ AggregatorAt("idle")
  /\ RedactorOff
  /\ HealthOff
  /\ KubectlOff
  /\ fileConfig \in FileConfigs
  /\ cliConfig \in CliConfigs
  /\ allNamespaceNames \in Clusters
  /\ namespacesToConsider = <<>>
  /\ resourceTypesToFetch = <<>>
  /\ sharedDefaultConfig = defaultConfig
  /\ mergeCalls = 0
  /\ spc = "ready"

\* loadMergedConfig: the merged configuration of the run, and what the merge
\* leaves in defaultConfig.
MergeConfigs ==
  /\ spc = "ready"
  /\ config' = mergeConfigs(sharedDefaultConfig, fileConfig, cliConfig)
  /\ sharedDefaultConfig' = defaultConfigAfter(sharedDefaultConfig, fileConfig, cliConfig)
  /\ mergeCalls' = mergeCalls + 1
  /\ spc' = "merged"
  /\ UNCHANGED <<rvars, avars, hvars, kvars, fileConfig, cliConfig, allNamespaceNames,
                 namespacesToConsider, resourceTypesToFetch>>

\* aggregateResources: namespaceNames = getNamespacesToQuery(config, allNamespaceNames)
ResolveNamespaces ==
  /\ spc = "merged"
  /\ namespacesToConsider' = getNamespacesToQuery(config, allNamespaceNames)
  /\ spc' = "resolved"
  /\ UNCHANGED <<config, rvars, avars, hvars, kvars, fileConfig, cliConfig, allNamespaceNames,
                 resourceTypesToFetch, sharedDefaultConfig, mergeCalls>>

\* aggregateResources: resourceTypes = getResourceTypesToFetch(config)
ResolveResourceTypes ==
  /\ spc = "resolved"
  /\ resourceTypesToFetch' = getResourceTypesToFetch(config)
  /\ spc' = "typed"
  /\ UNCHANGED <<config, rvars, avars, hvars, kvars, fileConfig, cliConfig, allNamespaceNames,
                 namespacesToConsider, sharedDefaultConfig, mergeCalls>>

NextScope == MergeConfigs \/ ResolveNamespaces \/ ResolveResourceTypes

SpecScope == InitScope /\ [][NextScope]_vars

\* ------------------------------------------- mergeConfigs, called again
MaxCalls == 2   \* calls of mergeConfigs in one process

MergeFiles ==
  { NoPartial,
    Partial({"excludeNamespaces"}, [NoFilter EXCEPT !.excludeNamespaces = <<"b">>]),
    Partial({"namespaces"}, [NoFilter EXCEPT !.namespaces = <<"a", "b">>]),
    Partial({"includeResourceTypes"}, [NoFilter EXCEPT !.includeResourceTypes = <<"pods">>]),
    [Partial({"outputFormat"}, NoFilter) EXCEPT !.outputFormat = "yaml"] }

MergeClis ==
  { NoPartial,
    Partial({"namespaces", "excludeNamespaces"},
            [NoFilter EXCEPT !.namespaces = <<"a">>, !.excludeNamespaces = <<"A">>]),
    [Partial({"redactSecrets"}, NoFilter) EXCEPT !.redactSecrets = FALSE] }

InitMerge ==
  /\ config = defaultConfig
  /\ AggregatorAt("idle")
  /\ RedactorOff
  /\ HealthOff
  /\ KubectlOff
  /\ fileConfig \in MergeFiles
  /\ cliConfig \in MergeClis
  /\ allNamespaceNames = <<>>
  /\ namespacesToConsider = <<>>
  /\ resourceTypesToFetch = <<>>
  /\ sharedDefaultConfig = defaultConfig
  /\ mergeCalls = 0
  /\ spc = "ready"

\* The arguments of the next call of mergeConfigs in the same process.
LoadAgain ==
  /\ spc = "merged"
  /\ mergeCalls < MaxCalls
  /\ fileConfig' \in MergeFiles
  /\ cliConfig' \in MergeClis
  /\ spc' = "ready"
  /\ UNCHANGED <<config, rvars, avars, hvars, kvars, allNamespaceNames, namespacesToConsider,
                 resourceTypesToFetch, sharedDefaultConfig, mergeCalls>>

NextMerge == MergeConfigs \/ LoadAgain

SpecMerge == InitMerge /\ [][NextMerge]_vars

\* ============================================== executeKubectlCommand
\* types.join(',')
JoinTypes(types) ==
  IF types = <<"pods">> THEN "pods"
  ELSE IF types = <<"pods", "services">> THEN "pods,services"
  ELSE "all"

\* How the kubectl process ended: exit code 0, a non-zero exit code, or
\* ENOENT when the binary is not found.
ProcessOutcomes == {"ok", "exit", "ENOENT"}

\* The command line as its words: kubectl, the kubeconfig and context flags
\* when given, then the arguments.
commandString(args, kubeconfigPath, context) ==
  <<"kubectl">>
  \o (IF kubeconfigPath # "" THEN <<"--kubeconfig", kubeconfigPath>> ELSE <<>>)
  \o (IF context # "" THEN <<"--context", context>> ELSE <<>>)
  \o args

\* executeKubectlCommand: { stdout, stderr, command } on exit code 0; a
\* KubeAggregatorError without a command on ENOENT; otherwise a KubectlError
\* that carries the command.
executeKubectlCommand(args, kubeconfigPath, context, process) ==
  IF process = "ok"
  THEN [threw |-> FALSE, command |-> commandString(args, kubeconfigPath, context),
        error |-> "none", stdout |-> "stdout"]
  ELSE IF process = "ENOENT"
  THEN [threw |-> TRUE, command |-> <<>>, error |-> "KubeAggregatorError", stdout |-> ""]
  ELSE [threw |-> TRUE, command |-> commandString(args, kubeconfigPath, context),
        error |-> "KubectlError", stdout |-> ""]

\* -o wide for the text format
outputFlag(outputFormat) == IF outputFormat = "text" THEN "wide" ELSE outputFormat

\* The arguments getResourcesOutput passes to executeKubectlCommand.
getResourcesOutputArgs(call) ==
  <<"get", JoinTypes(call.types), "-n", call.namespace, "-o", outputFlag(call.outputFormat)>>

\* What getResourcesOutput returns after executeKubectlCommand returned or
\* threw: on a failure the command of a KubectlError, otherwise a command
\* string built from the types, the namespace and the output flag.
getResourcesOutputReturn(call, exec) ==
  IF ~exec.threw THEN [output |-> exec.stdout, command |-> exec.command]
  ELSE IF exec.error = "KubectlError" /\ exec.command # <<>>
  THEN [output |-> "", command |-> exec.command]
  ELSE [output |-> "",
        command |-> <<"kubectl">> \o getResourcesOutputArgs(call)]

KubectlCalls ==
  [namespace : {"a", "b"}, types : {<<"pods">>, <<"pods", "services">>, <<"all">>},
   kubeconfigPath : {"", "/k"}, context : {"", "ctx"}, outputFormat : {"text", "yaml", "json"}]

InitKubectl ==
  /\ config = MkConfig(TRUE, "yaml", TRUE, NoFilter)
  /\ AggregatorAt("idle")
  /\ RedactorOff
  /\ ScopeOff
  /\ HealthOff
  /\ kubectlCall \in KubectlCalls
  /\ execResult = NoExec
  /\ returnedData = [output |-> "", command |-> <<>>]
  /\ kpc = "ready"

\* getResourcesOutput up to its await: executeKubectlCommand ran kubectl.
ExecuteKubectlCommand ==
  /\ kpc = "ready"
  /\ \E process \in ProcessOutcomes :
       execResult' = executeKubectlCommand(getResourcesOutputArgs(kubectlCall),
                                           kubectlCall.kubeconfigPath, kubectlCall.context,
                                           process)
  /\ kpc' = "executed"
  /\ UNCHANGED <<config, rvars, avars, svars, hvars, kubectlCall, returnedData>>

\* getResourcesOutput after its await: it returns { output, command }.
GetResourcesOutputReturns ==
  /\ kpc = "executed"
  /\ returnedData' = getResourcesOutputReturn(kubectlCall, execResult)
  /\ kpc' = "returned"
  /\ UNCHANGED <<config, rvars, avars, svars, hvars, kubectlCall, execResult>>

NextKubectl == ExecuteKubectlCommand \/ GetResourcesOutputReturns

SpecKubectl == InitKubectl /\ [][NextKubectl]_vars

\* ------------------------------------------------- reading texts back
HasBad(text) == \E i \in DOMAIN text.toks : text.toks[i].t = "bad"
Parseable(text) == text.toks # <<>> /\ ~HasBad(text)

\* The documents a reader of the text gets: the documents of a YAML stream,
\* the one object of a JSON text, or the elements of a bare JSON array.
DocsOf(text) ==
  IF text.form = "yaml"
  THEN LET ds == parseAllDocuments(text) IN [i \in DOMAIN ds |-> ds[i].doc]
  ELSE IF text.toks[1].t = "array" THEN text.toks[1].elems
       ELSE <<text.toks[1].doc>>

RECURSIVE SecretsIn(_)
RECURSIVE SecretsInSeq(_)
\* The Secret documents of a document, itself and its items at any depth, in order.
SecretsIn(doc) ==
  (IF doc.kind = "Secret" THEN <<doc>> ELSE <<>>) \o SecretsInSeq(doc.items)
SecretsInSeq(docs) ==
  IF Len(docs) = 0 THEN <<>> ELSE SecretsIn(docs[1]) \o SecretsInSeq(Tail(docs))

AllMasked(m) == \A k \in DOMAIN m : m[k] = SECRET_REDACTION_PLACEHOLDER

Redacting == rpc # "ready" /\ config.redactSecrets /\ Parseable(input)

\* C1: with redaction enabled, every Secret document of a YAML or JSON
\* input comes out with the same keys under data, each mapped to "*****".
C1_DataKeysKeptValuesMasked ==
  Redacting =>
    LET a == SecretsInSeq(DocsOf(input))
        b == SecretsInSeq(DocsOf(result))
    IN /\ Len(a) = Len(b)
       /\ \A i \in DOMAIN a :
            /\ DOMAIN b[i].data = DOMAIN a[i].data
            /\ AllMasked(b[i].data)

\* C3: with redaction enabled, every value under stringData of every Secret
\* document is replaced by the placeholder, with or without a data mapping.
C3_StringDataMasked ==
  Redacting =>
    LET a == SecretsInSeq(DocsOf(input))
        b == SecretsInSeq(DocsOf(result))
    IN /\ Len(a) = Len(b)
       /\ \A i \in DOMAIN a :
            /\ DOMAIN b[i].stringData = DOMAIN a[i].stringData
            /\ AllMasked(b[i].stringData)

RECURSIVE ListRedacted(_, _)
\* out is the list in with the data of exactly its Secret items masked, at
\* any depth, every item at its position, every other item as it was.
ListRedacted(in, out) ==
  /\ out.kind = in.kind
  /\ Len(out.items) = Len(in.items)
  /\ \A i \in DOMAIN in.items :
       LET x == in.items[i]
           y == out.items[i]
       IN IF x.kind = "Secret"
          THEN y.kind = "Secret" /\ DOMAIN y.data = DOMAIN x.data /\ AllMasked(y.data)
          ELSE IF "items" \in x.has THEN ListRedacted(x, y)
          ELSE y = x

IsListInput ==
  /\ Redacting
  /\ Len(DocsOf(input)) = 1
  /\ "items" \in DocsOf(input)[1].has

\* C4: for a list document holding Secrets and non-Secrets at any depth, the
\* redactor masks the data of exactly the Secret items, keeps every item at
\* its position and leaves the other items unchanged, in YAML and in JSON.
C4_ListItemsRedactedInPlace ==
  IsListInput =>
    /\ Len(DocsOf(result)) = 1
    /\ ListRedacted(DocsOf(input)[1], DocsOf(result)[1])

\* The three container shapes, holding plain (non-list) documents.
IsContainerInput ==
  /\ Redacting
  /\ \/ input.form = "yaml" /\ Len(DocsOf(input)) >= 2
     \/ input.form = "json" /\ input.toks[1].t = "array"
     \/ input.form = "json" /\ input.toks[1].t = "object" /\ "items" \in input.toks[1].doc.has
  /\ LET ds == IF input.form = "json" /\ input.toks[1].t = "object"
               THEN input.toks[1].doc.items ELSE DocsOf(input)
     IN \A i \in DOMAIN ds : ds[i].items = <<>>

\* C5: in a multi-document YAML stream, in a JSON object with an items
\* array and in a bare JSON array, the data of every Secret is masked.
C5_AllContainerShapesRedacted ==
  IsContainerInput =>
    LET b == SecretsInSeq(DocsOf(result))
    IN /\ Len(b) = Len(SecretsInSeq(DocsOf(input)))
       /\ \A i \in DOMAIN b : AllMasked(b[i].data)

RECURSIVE SameOutsideSecretData(_, _)
\* Every field outside a Secret's data / stringData has the same key and value.
SameOutsideSecretData(x, y) ==
  /\ y.kind = x.kind
  /\ y.has = x.has
  /\ DOMAIN y.data = DOMAIN x.data
  /\ DOMAIN y.stringData = DOMAIN x.stringData
  /\ x.kind # "Secret" => (y.data = x.data /\ y.stringData = x.stringData)
  /\ Len(y.items) = Len(x.items)
  /\ \A i \in DOMAIN x.items : SameOutsideSecretData(x.items[i], y.items[i])

\* C6: parsing the output gives as many documents as parsing the input, in
\* the same order, with every field outside a Secret's data unchanged.
C6_StructurePreserved ==
  (rpc # "ready" /\ Parseable(input)) =>
    LET a == DocsOf(input)
        b == DocsOf(result)
    IN /\ Len(b) = Len(a)
       /\ \A i \in DOMAIN a : i \in DOMAIN b => SameOutsideSecretData(a[i], b[i])

\* C7: redacting the redactor's output returns the same text.
C7_Idempotent == rpc = "twice" => result2 = result

\* C8: an unparseable string is returned exactly as given, and nothing is raised.
C8_UnparseableReturnedUnchanged ==
  (rpc # "ready" /\ HasBad(input)) => (result = input /\ ~raised)

C8_Witness ==
  /\ rpc = "once" /\ config.redactSecrets
  /\ HasBad(input) /\ LooksLikeManifest(input) /\ Len(input.toks) > 1
  /\ result = input /\ ~raised

\* --------------------------------------------------- claims on the run
RECURSIVE HasMaskedSecret(_)
HasMaskedSecret(doc) ==
  \/ doc.kind = "Secret" /\ DOMAIN doc.data # {} /\ AllMasked(doc.data)
  \/ \E i \in DOMAIN doc.items : HasMaskedSecret(doc.items[i])

\* C2: with redaction enabled, the blocks handed to the renderer and to the
\* file writer are the same in two runs whose kubectl responses differ only
\* in the values under data of Secrets.
C2_SecretDataDoesNotReachDocument ==
  config.redactSecrets =>
    /\ rendered.called => rendered.fetchedOutputBlocks = twinBlocks
    /\ written.called => written.fetchedOutputBlocks = twinBlocks

C2_Witness ==
  /\ config.redactSecrets /\ config.outputFormat = "json"
  /\ written.called
  /\ \E j \in DOMAIN written.fetchedOutputBlocks :
       HasMaskedSecret(written.fetchedOutputBlocks[j].output.toks[1].doc)

TasksOf(ns) == {i \in DOMAIN tasks : namespaceNames[i] = ns}
BlocksOf(blocks, ns) == {j \in DOMAIN blocks : blocks[j].namespace = ns}

\* C9: when fetch calls of some namespaces throw, the run does not raise
\* for it: the renderer gets the block of every namespace whose fetch
\* returned data, and a namespace whose fetch threw has an empty resource map.
C9_PartialFailureResilience ==
  /\ failedAt # "namespaceTask"
  /\ rendered.called =>
       \A ns \in Range(namespaceNames) :
         /\ Cardinality(BlocksOf(rendered.fetchedOutputBlocks, ns))
              = Cardinality({i \in TasksOf(ns) : tasks[i].outcome = "block"})
         /\ (\A i \in TasksOf(ns) : tasks[i].outcome = "threw") =>
              /\ ns \in DOMAIN rendered.resourcesByNamespace
              /\ DOMAIN rendered.resourcesByNamespace[ns] = {}

C9_Witness ==
  /\ pc = "done"
  /\ Len(namespaceNames) >= 2
  /\ tasks[1].outcome = "threw"
  /\ tasks[2].outcome = "block"
  /\ BlocksOf(rendered.fetchedOutputBlocks, namespaceNames[2]) # {}
  /\ DOMAIN rendered.resourcesByNamespace[namespaceNames[1]] = {}

\* C10 as claimed: a run fails only while resolving scope or fetching the
\* cluster-wide namespace listing.
C10_FailsOnlyBeforeFetching ==
  pc = "failed" => failedAt \in {"getNamespaceNames", "getNamespacesOutput"}

\* C10 as amended: a run fails only at the namespace listing steps, at
\* generateOutput or at writeOutputToDisk; a throw of a namespace task, of a
\* diagnostics call, of token counting or of the clipboard copy never ends it.
C10_FailsOnlyAtPropagatingSteps ==
  /\ pc = "failed" <=> failedAt # "none"
  /\ failedAt \in {"none", "getNamespaceNames", "getNamespacesOutput",
                   "generateOutput", "writeOutputToDisk"}

C10_Witness ==
  /\ pc = "done"
  /\ {"namespaceTask", "diagnostics", "countTokens", "copyToClipboardIfEnabled"} \subseteq threw

\* --------------------------------------------- claims on the diagnostics
DiagnosticsOps == {"describePod", "getPodLogs", "getPodLogsPrevious"}

DiagnosticsCalls == {c \in DOMAIN calls : c.op \in DiagnosticsOps}

\* C11: no describe or logs call is issued, no record is made and the
\* renderer is not invoked while a per-namespace task is still running.
C11_DiagnosticsAfterAllTasks ==
  (DiagnosticsCalls # {} \/ podDiagnostics # <<>> \/ rendered.called) =>
    \A i \in DOMAIN tasks : tasks[i].at = "settled"

C11_Witness ==
  /\ DiagnosticsCalls # {}
  /\ ~rendered.called
  /\ Len(tasks) >= 2
  /\ \E i \in DOMAIN tasks : tasks[i].outcome = "threw"
  /\ \E i \in DOMAIN tasks : tasks[i].outcome = "block"

\* C12: every external call is issued at most once in a run: one name
\* listing and one data fetch per resolved namespace, one describe, one
\* current-logs and one previous-logs call per failing pod.
C12_EachCallAtMostOnce ==
  \A c \in DOMAIN calls : calls[c] <= 1

\* C13 as claimed: a task sets only the entry of its own namespace in a map
\* keyed by namespace, and no entry is set by two tasks.
C13_TasksWriteOnlyOwnKey ==
  /\ \A w \in writes : w[2] = "resourcesByNamespace" /\ w[3] = namespaceNames[w[1]]
  /\ \A w1, w2 \in writes : (w1[2] = w2[2] /\ w1[3] = w2[3]) => w1[1] = w2[1]

\* C13 as amended: in the map keyed by namespace a task sets only the entry
\* of its own namespace; the counters keyed by kind and the list of blocks
\* are shared by all tasks and only grow: no counter decreases and no block
\* already in the list is changed or removed.
C13_SharedStateOnlyGrows ==
  /\ [](\A w \in writes : w[2] = "resourcesByNamespace" => w[3] = namespaceNames[w[1]])
  /\ [][/\ \A k \in DOMAIN totalResourceCounts :
              /\ k \in DOMAIN totalResourceCounts'
              /\ totalResourceCounts'[k] >= totalResourceCounts[k]
        /\ Len(fetchedOutputBlocks') >= Len(fetchedOutputBlocks)
        /\ \A j \in DOMAIN fetchedOutputBlocks :
              fetchedOutputBlocks'[j] = fetchedOutputBlocks[j]]_vars

C13_Witness ==
  /\ pc = "done"
  /\ \E w1, w2 \in writes :
       w1[2] = "totalResourceCounts" /\ w2[2] = "totalResourceCounts"
       /\ w1[3] = w2[3] /\ w1[1] # w2[1]
  /\ \E w1, w2 \in writes :
       w1[2] = "fetchedOutputBlocks" /\ w2[2] = "fetchedOutputBlocks" /\ w1[1] # w2[1]

RECURSIVE PodsIn(_)
RECURSIVE PodsInSeq(_)
\* The Pod documents of a document, itself and its items, in order.
PodsIn(doc) ==
  (IF doc.kind = "Pod" THEN <<doc>> ELSE <<>>) \o PodsInSeq(doc.items)
PodsInSeq(docs) ==
  IF Len(docs) = 0 THEN <<>> ELSE PodsIn(docs[1]) \o PodsInSeq(Tail(docs))

\* The pods of the fetched blocks that the health classifier was given (the
\* blocks fetched as yaml or json) and judged failing.
JudgedFailing(blocks) ==
  {[namespace |-> blocks[j].namespace, podName |-> pod.name] :
     <<j, pod>> \in {<<j, pod>> \in
        UNION {{<<jj, pp>> : pp \in Range(PodsInSeq(DocsOf(blocks[jj].output)))} :
               jj \in {x \in DOMAIN blocks : blocks[x].command.flag \in {"yaml", "json"}}} :
        isPodFailing(pod)}}

RecordedPods ==
  {[namespace |-> podDiagnostics[j].namespace, podName |-> podDiagnostics[j].podName] :
     j \in DOMAIN podDiagnostics}

\* C14: when the renderer is called, the diagnostics list has a record for a
\* pod exactly if diagnostics are enabled and the classifier judged the pod
\* failing, whatever its describe and logs calls did.
C14_RecordIffJudgedFailing ==
  rendered.called =>
    RecordedPods = IF config.includeFailingPods THEN JudgedFailing(fetchedOutputBlocks) ELSE {}

C14_Witness ==
  /\ rendered.called
  /\ \E j \in DOMAIN podDiagnostics : attempts[j] = <<"failed", "failed", "failed">>
  /\ \E j \in DOMAIN podDiagnostics : "throw" \in Range(attempts[j])

Recorded(j) == j \in DOMAIN podDiagnostics /\ j \in DOMAIN attempts

\* C15: when one of the three calls for a pod fails, the record of the pod
\* carries the results of the calls that succeeded, and the calls after the
\* failed one are still made.
C15_SubCallsIsolated ==
  \A j \in DOMAIN attempts :
    (Recorded(j) /\ Range(attempts[j]) \cap {"failed", "throw"} # {}) =>
      /\ "skipped" \notin Range(attempts[j])
      /\ attempts[j][1] = "ok" => podDiagnostics[j].description = "description"
      /\ attempts[j][2] = "ok" => podDiagnostics[j].logs = "logs"
      /\ attempts[j][3] = "ok" => podDiagnostics[j].prevLogs = "previous logs"

C17_DiagnosticsOnlyForFailingPods ==
  /\ \A c \in DiagnosticsCalls :
       [namespace |-> c.namespace, podName |-> c.podName] \in JudgedFailing(fetchedOutputBlocks)
  /\ ~config.includeFailingPods => (DiagnosticsCalls = {} /\ podDiagnostics = <<>>)

C17_Witness ==
  /\ pc = "done"
  /\ ~config.includeFailingPods
  /\ JudgedFailing(fetchedOutputBlocks) # {}
  /\ DiagnosticsCalls = {}

\* ---------------------------------------------------------------- C18
\* A container status that alone makes a pod count as failing.
BadStatus(cs) ==
  ~cs.isNull /\ (cs.restartCount > 3 \/ cs.waiting \in problematicReasons)

BadPhase(doc) == doc.status.phase \notin {"Running", "Succeeded"}

Includes(partial) ==
  IF "namespaces" \in partial.has THEN partial.filter.namespaces ELSE <<>>

\* The exclude list a source gives; empty when it gives none.
Excludes(partial) ==
  IF "excludeNamespaces" \in partial.has THEN partial.filter.excludeNamespaces ELSE <<>>

\* The namespaces to start from: the command line's include list if it is
\* non-empty, otherwise the file's if it is non-empty, otherwise the
\* namespaces discovered in the cluster.
IncludeBase ==
  IF Len(Includes(cliConfig)) > 0 THEN Includes(cliConfig)
  ELSE IF Len(Includes(fileConfig)) > 0 THEN Includes(fileConfig)
  ELSE allNamespaceNames

\* C19: the resolved namespaces are taken, in order, from the command line's
\* include list when it is non-empty, otherwise from the file's include list
\* when it is non-empty, otherwise from the discovered namespaces; a
\* command-line include list replaces the file's and is never merged with it.
C19_IncludePrecedence ==
  spc = "resolved" =>
    /\ namespacesToConsider =
         SelectSeq(IncludeBase, LAMBDA ns : ns \in Range(namespacesToConsider))
    /\ \A ns \in Range(IncludeBase) \ Range(namespacesToConsider) :
         ns \in Range(config.filter.excludeNamespaces)
    /\ Len(Includes(cliConfig)) > 0 =>
         /\ config.filter.namespaces = Includes(cliConfig)
         /\ Range(namespacesToConsider) \subseteq Range(Includes(cliConfig))

\* The command line includes a and A, the file includes a and b, the
\* cluster has all three: a and A are resolved, b is not.
C19_Witness ==
  /\ spc = "resolved"
  /\ Includes(cliConfig) = <<"a", "A">>
  /\ Includes(fileConfig) = <<"a", "b">>
  /\ "b" \in Range(allNamespaceNames)
  /\ namespacesToConsider = <<"a", "A">>

\* ---------------------------------------------------------------- C20
DefaultExcludes == Range(defaultConfig.filter.excludeNamespaces)

\* The example of the claim: the defaults exclude kube-system, the file
\* includes a and b, the command line excludes b.
C20_Example ==
  /\ "kube-system" \in DefaultExcludes
  /\ Includes(fileConfig) = <<"a", "b">>
  /\ "excludeNamespaces" \notin fileConfig.has
  /\ Len(Includes(cliConfig)) = 0
  /\ Excludes(cliConfig) = <<"b">>

\* C20 as stated: no resolved namespace is named in the command line's, the
\* file's or the default exclude list, and the example resolves to exactly a.
C20_NoExcludedNamespace ==
  spc = "resolved" =>
    /\ \A ns \in Range(namespacesToConsider) :
         ns \notin Range(Excludes(cliConfig)) \cup Range(Excludes(fileConfig))
                   \cup DefaultExcludes
    /\ C20_Example => namespacesToConsider = <<"a">>

\* The exclusions in force: the command line's, with the file's exclude list
\* when the file gives one and the default exclude list when it does not.
EffectiveExcludes ==
  Range(Excludes(cliConfig))
  \cup (IF "excludeNamespaces" \in fileConfig.has
        THEN Range(Excludes(fileConfig)) ELSE DefaultExcludes)

\* C20 amended: the resolved namespaces are the starting namespaces without
\* every name that is, letter for letter, in the command line's exclude list
\* or in the file's exclude list, or, when the file gives no exclude list,
\* in the default one; the example resolves to exactly a.
C20_NoEffectivelyExcludedNamespace ==
  spc = "resolved" =>
    /\ namespacesToConsider =
         SelectSeq(IncludeBase, LAMBDA ns : ns \notin EffectiveExcludes)
    /\ C20_Example => namespacesToConsider = <<"a">>

\* Exclusions from two sources act at once and by exact case: the file
\* excludes A, the command line excludes b, and of the discovered
\* kube-system, a, A and b only kube-system and a are resolved.
C20_Witness ==
  /\ spc = "resolved"
  /\ Excludes(fileConfig) = <<"A">>
  /\ Excludes(cliConfig) = <<"b">>
  /\ allNamespaceNames = <<"kube-system", "a", "A", "b">>
  /\ IncludeBase = allNamespaceNames
  /\ namespacesToConsider = <<"kube-system", "a">>

\* ---------------------------------------------------------------- C21
GetOps == {"getResourcesByName", "getResourcesOutput"}

\* The resource types that the `kubectl get` calls of the namespace tasks
\* name: typeList = types.join(',').
TypesNamed(cfg) == Range(typesToFetch(cfg))

\* C21: no `kubectl get` call of a run names a resource type in the merged
\* exclude-types list or targets a namespace in the merged
\* exclude-namespaces list.
C21_NoCallForExcludedScope ==
  \A c \in DOMAIN calls :
    c.op \in GetOps =>
      /\ c.namespace \notin Range(config.filter.excludeNamespaces)
      /\ TypesNamed(config) \cap Range(config.filter.excludeResourceTypes) = {}

\* ---------------------------------------------------------------- C22
\* The kinds that the includes and excludes of the merged configuration
\* leave: the include list, or the default kinds when there is none, without
\* the excluded kinds.
KindsLeft ==
  LET base == IF Len(config.filter.includeResourceTypes) > 0
              THEN Range(config.filter.includeResourceTypes)
              ELSE Range(DEFAULT_RESOURCE_TYPES)
  IN base \ Range(config.filter.excludeResourceTypes)

\* C22: the resolved kind list is never empty; when includes and excludes
\* leave no kind it is the single kind pods, otherwise it holds the kinds
\* that are left.
C22_KindsNeverEmpty ==
  spc = "typed" =>
    /\ Len(resourceTypesToFetch) > 0
    /\ KindsLeft = {} => resourceTypesToFetch = <<"pods">>
    /\ KindsLeft # {} => Range(resourceTypesToFetch) = KindsLeft

\* The file includes only events, which the defaults exclude: the resolved
\* kinds are the single kind pods.
C22_Witness ==
  /\ spc = "typed"
  /\ config.filter.includeResourceTypes = <<"events">>
  /\ "events" \in Range(config.filter.excludeResourceTypes)
  /\ KindsLeft = {}
  /\ resourceTypesToFetch = <<"pods">>

\* ---------------------------------------------------------------- C23
NoDuplicates(seq) == \A i, j \in DOMAIN seq : seq[i] = seq[j] => i = j

\* C23: the resolved namespace list and the resolved kind list contain no
\* duplicate entries, whatever the include lists contain.
C23_ResolvedListsDeduplicated ==
  /\ spc \in {"resolved", "typed"} => NoDuplicates(namespacesToConsider)
  /\ spc = "typed" => NoDuplicates(resourceTypesToFetch)

\* ---------------------------------------------------------------- C24
\* The namespace header lines of a tree: its lines without indentation,
\* except the line that stands for an empty namespace list.
NamespaceHeaders(tree) ==
  SelectSeq(tree, LAMBDA l : l.indent = 0 /\ l # NoNamespacesLine)

\* C24: when the resolved namespaces are N distinct names, the tree handed
\* to the renderer has exactly N namespace header lines, one per resolved
\* namespace, whether or not a namespace has resources or its task failed.
C24_OneHeaderPerNamespace ==
  (rendered.called /\ NoDuplicates(rendered.namespaceNames)) =>
    LET headers == NamespaceHeaders(rendered.resourceTreeString)
    IN /\ Len(headers) = Len(rendered.namespaceNames)
       /\ \A ns \in Range(rendered.namespaceNames) :
            Cardinality({i \in DOMAIN headers : headers[i].text = ns}) = 1

\* Two namespaces, the task of one threw and the other has resources: the
\* tree has both headers.
C24_Witness ==
  /\ rendered.called
  /\ Len(rendered.namespaceNames) = 2
  /\ NoDuplicates(rendered.namespaceNames)
  /\ \E i, j \in DOMAIN tasks : tasks[i].outcome = "threw" /\ tasks[j].outcome = "block"
  /\ Len(NamespaceHeaders(rendered.resourceTreeString)) = 2
  /\ Len(rendered.resourceTreeString) > 2

\* ---------------------------------------------------------------- C25
\* The resolved namespaces that have no resource of any kind.
HasNoResources(rbn, ns) ==
  ns \notin DOMAIN rbn \/ \A k \in DOMAIN rbn[ns] : Len(rbn[ns][k]) = 0

\* C25: in the tree, the header of a resolved namespace that has no
\* resources of any kind is followed by a line with the "none" marker.
C25_NoneMarkerUnderEmptyNamespace ==
  rendered.called =>
    LET tree == rendered.resourceTreeString
    IN \A i \in DOMAIN tree :
         (/\ tree[i].indent = 0
          /\ tree[i].text \in Range(rendered.namespaceNames)
          /\ HasNoResources(rendered.resourcesByNamespace, tree[i].text))
         => (i + 1 \in DOMAIN tree /\ tree[i + 1].indent > 0 /\ tree[i + 1].none)

\* ---------------------------------------------------------------- C26
\* The fully expanded command line of the call.
ExpandedCommand ==
  commandString(getResourcesOutputArgs(kubectlCall), kubectlCall.kubeconfigPath,
                kubectlCall.context)

\* C26: the caller gets the fully expanded command line, with the
\* kubeconfig and context flags, from every kubectl invocation: in the
\* result on success, in the raised error on a failure, and in the value
\* returned by the wrapper that swallows the failure.
C26_CommandLineAlwaysYielded ==
  /\ kpc \in {"executed", "returned"} => execResult.command = ExpandedCommand
  /\ kpc = "returned" => returnedData.command = ExpandedCommand

\* ---------------------------------------------------------------- C27
\* C27: after the tasks settled, every resolved namespace whose name listing
\* found resources and for which kubectl printed manifests has exactly one
\* block; a block is never left out because of what the manifests contain.
C27_BlockForEveryFetchedNamespace ==
  (pc = "diagnostics" /\ NoDuplicates(namespaceNames)) =>
    \A i \in DOMAIN tasks :
      tasks[i].fetched > 0 =>
        Cardinality(BlocksOf(fetchedOutputBlocks, namespaceNames[i])) = 1

\* ---------------------------------------------------------------- C28
RECURSIVE namesRecorded(_, _, _)
\* The number of names of a kind recorded under the namespaces nss of the map
\* the tree is built from.
namesRecorded(rbn, kind, nss) ==
  IF nss = {} THEN 0
  ELSE LET namespace == CHOOSE n \in nss : TRUE
           here == IF kind \in DOMAIN rbn[namespace] THEN Len(rbn[namespace][kind]) ELSE 0
       IN here + namesRecorded(rbn, kind, nss \ {namespace})

\* C28: when aggregateResources returns, resourceCounts[kind] is the number
\* of names of that kind recorded across resourcesByNamespace, for every kind,
\* also in runs where a namespace task failed part-way.
C28_CountsMatchRecordedNames ==
  (pc = "done" /\ NoDuplicates(namespaceNames)) =>
    \A kind \in DOMAIN totalResourceCounts :
      totalResourceCounts[kind] =
        namesRecorded(resourcesByNamespace, kind, DOMAIN resourcesByNamespace)

\* ---------------------------------------------------------------- C29
\* The position of a namespace in the resolved list: the order in which
\* namespaceNames.map started the tasks.
startedAt(namespace) ==
  CHOOSE i \in DOMAIN namespaceNames :
    /\ namespaceNames[i] = namespace
    /\ \A j \in 1..(i - 1) : namespaceNames[j] # namespace

\* C29: the blocks handed to the renderer are in an order fixed by the run's
\* scope, the order of the resolved namespaces, whichever task completed first.
C29_BlockOrderFixedByScope ==
  (pc = "done" /\ NoDuplicates(namespaceNames)) =>
    \A j, k \in DOMAIN rendered.fetchedOutputBlocks :
      j < k => startedAt(rendered.fetchedOutputBlocks[j].namespace)
                 < startedAt(rendered.fetchedOutputBlocks[k].namespace)

\* ---------------------------------------------------------------- C30
\* C30: mergeConfigs leaves the shared default configuration as it was, and
\* the result of each call is what its own file configuration and command
\* line give over the pristine defaults, whatever earlier calls were given.
C30_MergeLeavesDefaultsAlone ==
  /\ sharedDefaultConfig = defaultConfig
  /\ spc = "merged" => config = mergeConfigs(defaultConfig, fileConfig, cliConfig)

====
